---- MODULE Spec2Model ----
(***************************************************************************)
(* The orderbook monitor program of src/src/lib.rs: one account (the       *)
(* "region") holding a Borsh-encoded OrderbookMonitor, and the two         *)
(* handlers process_initialize and process_record_event that write it.     *)
(*                                                                         *)
(* The region is modelled byte for byte with the real Borsh widths.        *)
(* Decoded u64 / i64 / Pubkey values are kept as their little-endian byte  *)
(* tuples, so every byte content of a region has a defined decoding and no *)
(* 64-bit arithmetic is needed; the only arithmetic the program does on    *)
(* them, event_count += 1, is the carry increment IncLE.                   *)
(*                                                                         *)
(* Each action is one invocation of a handler on the account's buffer, as  *)
(* the entrypoint (lib.rs:79) hands it over: the AccountInfo is rebuilt    *)
(* over the whole buffer for every invocation.  What the host does with    *)
(* the buffer of a failed invocation is not part of the source and is not  *)
(* modelled: `data` is the buffer as the handler leaves it.                *)
(***************************************************************************)
EXTENDS Integers, Sequences, FiniteSets, TLC

\* ------------------------------------------------------------------ bounds
\* clock.unix_timestamp ranges over 0..MaxClock
MaxClock == 1
\* regions are sized for 0..MaxEvents events
MaxEvents == 2
\* at most MaxCalls RecordEvent calls with both accounts follow an Initialize
MaxCalls == 2

\* ------------------------------------------------------------- byte helpers
Min(a, b) == IF a < b THEN a ELSE b

\* n.to_le_bytes() for a w-byte unsigned integer, n < 2^31
ToLE(n, w) == [i \in 1..w |-> IF i > 4 THEN 0 ELSE (n \div (256 ^ (i - 1))) % 256]

\* a w-byte buffer of the byte b
Fill(w, b) == [i \in 1..w |-> b]

\* u32::from_le_bytes as far as a length needs it: every value of 65536 or
\* more is longer than any region of the model and is read as 65536
U32Value(b) == IF b[3] # 0 \/ b[4] # 0 THEN 65536 ELSE b[1] + 256 * b[2]

\* u64 wrapping increment on the little-endian bytes (monitor.event_count += 1
\* in a build without overflow checks)
IncLE(b) ==
    LET nz == {i \in 1..Len(b) : b[i] # 255}
        k  == IF nz = {} THEN 0 ELSE CHOOSE i \in nz : \A j \in nz : i <= j
    IN  [i \in 1..Len(b) |-> IF k = 0 \/ i < k THEN 0
                             ELSE IF i = k THEN b[i] + 1 ELSE b[i]]

\* ------------------------------------------------------------ identities
\* the program's own id, and some other program
ProgramId == Fill(32, 9)
OtherProgram == Fill(32, 8)
\* the key of the monitor account (the region)
MonitorKey == [i \in 1..32 |-> i]

EventTypes == <<"OrderPlaced", "OrderFilled", "OrderCancelled">>

\* ------------------------------------------------------ Borsh: deserialize
Ok(v, p) == [ok |-> TRUE, val |-> v, pos |-> p, err |-> ""]
Err(msg) == [ok |-> FALSE, val |-> <<>>, pos |-> 0, err |-> msg]

Avail(buf, pos) == Len(buf) - pos + 1

\* std::str::from_utf8 on a byte string
RECURSIVE IsUtf8(_)
IsUtf8(s) ==
    IF s = <<>> THEN TRUE
    ELSE LET c == s[1]
             Cont(i) == i <= Len(s) /\ s[i] >= 128 /\ s[i] <= 191
         IN  IF c < 128 THEN IsUtf8(Tail(s))
             ELSE IF c >= 194 /\ c <= 223
                  THEN Cont(2) /\ IsUtf8(SubSeq(s, 3, Len(s)))
             ELSE IF c >= 224 /\ c <= 239
                  THEN /\ Cont(2) /\ Cont(3)
                       /\ (c = 224 => s[2] >= 160)
                       /\ (c = 237 => s[2] <= 159)
                       /\ IsUtf8(SubSeq(s, 4, Len(s)))
             ELSE IF c >= 240 /\ c <= 244
                  THEN /\ Cont(2) /\ Cont(3) /\ Cont(4)
                       /\ (c = 240 => s[2] >= 144)
                       /\ (c = 244 => s[2] <= 143)
                       /\ IsUtf8(SubSeq(s, 5, Len(s)))
             ELSE FALSE

\* A struct is decoded field by field, in declared order.  Each rd_ operator
\* reads one field f at r.pos into the value r.val decoded so far; an error
\* ends the decoding (`?`): every later rd_ passes it on.

\* a fixed-width field: u64, i64, [u8; 32]
rd_fixed(buf, r, f, n) ==
    IF ~r.ok THEN r
    ELSE IF Avail(buf, r.pos) < n THEN Err("Unexpected length of input")
    ELSE Ok([r.val EXCEPT ![f] = SubSeq(buf, r.pos, r.pos + n - 1)], r.pos + n)

\* a bool is the byte 0 or 1; any other byte is an error
rd_bool(buf, r, f) ==
    IF ~r.ok THEN r
    ELSE IF Avail(buf, r.pos) < 1 THEN Err("Unexpected length of input")
    ELSE IF buf[r.pos] = 0 THEN Ok([r.val EXCEPT ![f] = FALSE], r.pos + 1)
    ELSE IF buf[r.pos] = 1 THEN Ok([r.val EXCEPT ![f] = TRUE], r.pos + 1)
    ELSE Err("Invalid bool representation")

\* the u32 length prefix of a Vec or String
de_u32(buf, pos) ==
    IF Avail(buf, pos) < 4 THEN Err("Unexpected length of input")
    ELSE Ok(U32Value(SubSeq(buf, pos, pos + 3)), pos + 4)

\* the bytes of a String whose length l has been read
rd_str_bytes(buf, r, f, l) ==
    IF ~l.ok THEN l
    ELSE IF Avail(buf, l.pos) < l.val THEN Err("Unexpected length of input")
    ELSE IF IsUtf8(SubSeq(buf, l.pos, l.pos + l.val - 1))
         THEN Ok([r.val EXCEPT ![f] = SubSeq(buf, l.pos, l.pos + l.val - 1)],
                 l.pos + l.val)
    ELSE Err("invalid utf-8 sequence")

rd_string(buf, r, f) ==
    IF ~r.ok THEN r ELSE rd_str_bytes(buf, r, f, de_u32(buf, r.pos))

rd_event_type(buf, r, f) ==
    IF ~r.ok THEN r
    ELSE IF Avail(buf, r.pos) < 1 THEN Err("Unexpected length of input")
    ELSE IF buf[r.pos] < 3
         THEN Ok([r.val EXCEPT ![f] = EventTypes[buf[r.pos] + 1]], r.pos + 1)
    ELSE Err("Unexpected variant index")

\* an OrderbookEvent / OrderbookMonitor no field of which has been read
BlankEvent ==
    [timestamp |-> <<>>, market_name |-> <<>>, price |-> <<>>, size |-> <<>>,
     is_bid |-> FALSE, event_type |-> ""]
BlankMonitor ==
    [initialized |-> FALSE, authority |-> <<>>, event_count |-> <<>>, events |-> <<>>]

\* OrderbookEvent, fields in declared order
de_event(buf, pos) ==
    rd_event_type(buf,
      rd_bool(buf,
        rd_fixed(buf,
          rd_fixed(buf,
            rd_string(buf,
              rd_fixed(buf, Ok(BlankEvent, pos), "timestamp", 8),
              "market_name"),
            "price", 8),
          "size", 8),
        "is_bid"),
      "event_type")

\* Vec::push of a decoded element
pushed(r, e) == IF ~e.ok THEN e ELSE Ok(Append(r.val, e.val), e.pos)

\* n more elements of a Vec<OrderbookEvent>, after those in r.val
RECURSIVE de_events(_, _, _)
de_events(buf, r, n) ==
    IF ~r.ok \/ n = 0 THEN r
    ELSE de_events(buf, pushed(r, de_event(buf, r.pos)), n - 1)

\* the decoded elements become the field f
rd_vec_items(r, f, items) ==
    IF ~items.ok THEN items ELSE Ok([r.val EXCEPT ![f] = items.val], items.pos)

\* the elements of a Vec whose length l has been read
rd_vec(buf, r, f, l) ==
    IF ~l.ok THEN l ELSE rd_vec_items(r, f, de_events(buf, Ok(<<>>, l.pos), l.val))

rd_events(buf, r, f) ==
    IF ~r.ok THEN r ELSE rd_vec(buf, r, f, de_u32(buf, r.pos))

\* OrderbookMonitor, fields in declared order
deserialize(buf, pos) ==
    rd_events(buf,
      rd_fixed(buf,
        rd_fixed(buf,
          rd_bool(buf, Ok(BlankMonitor, pos), "initialized"),
          "authority", 32),
        "event_count", 8),
      "events")

\* the whole slice must have been consumed
all_bytes_read(buf, r) ==
    IF ~r.ok THEN r
    ELSE IF r.pos # Len(buf) + 1 THEN Err("Not all bytes read")
    ELSE r

\* BorshDeserialize::try_from_slice: the whole slice must be consumed
try_from_slice(buf) == all_bytes_read(buf, deserialize(buf, 1))

\* solana_program::borsh::try_from_slice_unchecked: trailing bytes are ignored
try_from_slice_unchecked(buf) == deserialize(buf, 1)

\* -------------------------------------------------------- Borsh: serialize
\* the write_all calls BorshSerialize makes for one event, in order
EventChunks(e) ==
    << e.timestamp, ToLE(Len(e.market_name), 4), e.market_name, e.price, e.size,
       <<IF e.is_bid THEN 1 ELSE 0>>,
       <<(CHOOSE i \in 1..3 : EventTypes[i] = e.event_type) - 1>> >>

RECURSIVE EventsChunks(_)
EventsChunks(evs) ==
    IF evs = <<>> THEN <<>> ELSE EventChunks(Head(evs)) \o EventsChunks(Tail(evs))

\* MonitorChunks, had event_count been written before authority
MonitorChunksCountFirst(m) ==
    << <<IF m.initialized THEN 1 ELSE 0>>, m.event_count, m.authority,
       ToLE(Len(m.events), 4) >> \o EventsChunks(m.events)

\* the write_all calls BorshSerialize makes for an OrderbookMonitor
MonitorChunks(m) ==
    << <<IF m.initialized THEN 1 ELSE 0>>, m.authority, m.event_count,
       ToLE(Len(m.events), 4) >> \o EventsChunks(m.events)

\* Write::write_all for &mut [u8]: copies as much as fits, advances the slice,
\* and fails if not everything fitted
write_all(w, bytes) ==
    LET amt == Min(Len(bytes), Len(w.data) - w.pos + 1)
    IN  [data |-> [i \in 1..Len(w.data) |->
                      IF i >= w.pos /\ i < w.pos + amt THEN bytes[i - w.pos + 1]
                      ELSE w.data[i]],
         pos  |-> w.pos + amt,
         ok   |-> amt = Len(bytes)]

\* the chunks written one after the other; the first failure ends it (`?`)
RECURSIVE write_chunks(_, _)
write_chunks(w, chunks) ==
    IF chunks = <<>> \/ ~w.ok THEN w
    ELSE write_chunks(write_all(w, Head(chunks)), Tail(chunks))

\* monitor.serialize(&mut *monitor_account.data.borrow_mut())
serialize(m, buf) == write_chunks([data |-> buf, pos |-> 1, ok |-> TRUE], MonitorChunks(m))

RECURSIVE Flatten(_)
Flatten(chunks) == IF chunks = <<>> THEN <<>> ELSE Head(chunks) \o Flatten(Tail(chunks))

\* try_to_vec: the encoding of a monitor
Encode(m) == Flatten(MonitorChunks(m))

\* ------------------------------------------------------------------ sizes
\* encoded OrderbookMonitor without events:
\* initialized (1) + authority (32) + event_count (8) + events length (4)
HeaderLen == 1 + 32 + 8 + 4
\* encoded OrderbookEvent without the name's bytes: timestamp (8) + name
\* length (4) + price (8) + size (8) + is_bid (1) + event_type (1)
EventFixedLen == 8 + 4 + 8 + 8 + 1 + 1
\* std::mem::size_of::<OrderbookMonitor>(), the region size test_initialize uses
StructSize == 72

\* the market names the callers use
SolUsdc == <<83, 79, 76, 47, 85, 83, 68, 67>>
BtcUsdc == <<66, 84, 67, 47, 85, 83, 68, 67>>
MarketNames == {SolUsdc, BtcUsdc}
NameLen == Len(SolUsdc)

\* a region of exactly the bytes of a ledger with n events
SizeFor(n) == HeaderLen + n * (EventFixedLen + NameLen)
\* the callers' own estimate for n events (client.rs, serum_integration.rs):
\* 8 "discriminator" bytes and 50 bytes of name per event
ClientSpace(n) == 8 + 1 + 32 + 8 + 4 + n * (8 + 50 + 8 + 8 + 1 + 1)

RegionSizes ==
    {HeaderLen - 5, StructSize}
        \cup {SizeFor(n) : n \in 0..MaxEvents}
        \cup {ClientSpace(0)}

\* ---------------------------------------------------------- region images
SampleEvent ==
    [timestamp |-> ToLE(0, 8), market_name |-> SolUsdc,
     price |-> ToLE(1, 8), size |-> ToLE(70000, 8), is_bid |-> TRUE,
     event_type |-> "OrderPlaced"]

\* bytes that decode to a ledger with initialized = false and n events
UninitializedImage(n) ==
    Encode([initialized |-> FALSE, authority |-> Fill(32, 0),
            event_count |-> ToLE(n, 8), events |-> [i \in 1..n |-> SampleEvent]])

\* what a region of s bytes may hold before the program first touches it:
\* zeroes (a fresh account), garbage that does not decode, or bytes that
\* happen to decode to a ledger that was never initialized
InitialImages(s) ==
    {Fill(s, 0), Fill(s, 255)}
        \cup {UninitializedImage(n) : n \in {k \in 0..MaxEvents : SizeFor(k) = s}}

\* ------------------------------------------------------------------ errors
Success == [kind |-> "Ok", code |-> 0, msg |-> ""]
\* ProgramError::Custom(e as u32)
Custom(c) == [kind |-> "Custom", code |-> c, msg |-> ""]
\* enum OrderbookError, discriminants in declaration order
InvalidInstruction == Custom(0)
InvalidOwner == Custom(1)
AlreadyInitialized == Custom(2)
NotEnoughAccountKeys == [kind |-> "NotEnoughAccountKeys", code |-> 0, msg |-> ""]
UnsupportedSysvar == [kind |-> "UnsupportedSysvar", code |-> 0, msg |-> ""]
\* impl From<std::io::Error> for ProgramError
BorshIoError(m) == [kind |-> "BorshIoError", code |-> 0, msg |-> m]
\* ProgramError::InvalidInstructionData
InvalidInstructionData == [kind |-> "InvalidInstructionData", code |-> 0, msg |-> ""]

\* ---------------------------------------------------------------- handlers
\* A handler's outcome: the buffer as it leaves it, what it returns, and the
\* monitor it handed to serialize (BlankMonitor if it got to none).

\* an early return Err(e): the buffer is as it was
refused(buf, e) == [data |-> buf, result |-> e, monitor |-> BlankMonitor]

\* what a handler returns after monitor.serialize(..)?: the buffer as written,
\* and Ok(()) or the io error of the failed write
saved(m, w) ==
    [data |-> w.data,
     result |-> IF w.ok THEN Success ELSE BorshIoError("failed to write whole buffer"),
     monitor |-> m]

\* monitor.serialize(&mut *monitor_account.data.borrow_mut())?; Ok(())
store(m, buf) == saved(m, serialize(m, buf))

\* the OrderbookMonitor process_initialize builds
new_monitor(key) ==
    [initialized |-> TRUE, authority |-> key, event_count |-> ToLE(0, 8),
     events |-> <<>>]

\* process_initialize, had it refused a region that holds an initialized ledger
process_initialize_once(n_accounts, region_owner, key, buf) ==
    IF n_accounts < 1 THEN refused(buf, NotEnoughAccountKeys)
    ELSE IF region_owner # ProgramId THEN refused(buf, InvalidOwner)
    ELSE IF Len(buf) >= 1 /\ buf[1] = 1 THEN refused(buf, AlreadyInitialized)
    ELSE store(new_monitor(key), buf)

\* process_initialize, had it cleared the region before writing the ledger
process_initialize_clearing(n_accounts, region_owner, key, buf) ==
    IF n_accounts < 1 THEN refused(buf, NotEnoughAccountKeys)
    ELSE IF region_owner # ProgramId THEN refused(buf, InvalidOwner)
    ELSE store(new_monitor(key), Fill(Len(buf), 0))

\* process_initialize, had it dropped the result of serialize
process_initialize_unchecked(n_accounts, region_owner, key, buf) ==
    IF n_accounts < 1 THEN refused(buf, NotEnoughAccountKeys)
    ELSE IF region_owner # ProgramId THEN refused(buf, InvalidOwner)
    ELSE [store(new_monitor(key), buf) EXCEPT !.result = Success]

\* process_initialize on n_accounts accounts, the first being the region
process_initialize(n_accounts, region_owner, key, buf) ==
    IF n_accounts < 1 THEN refused(buf, NotEnoughAccountKeys)
    ELSE IF region_owner # ProgramId THEN refused(buf, InvalidOwner)
    ELSE store(new_monitor(key), buf)

\* new_event, had the timestamp been taken from the request
new_event_dated_by_request(now, a) ==
    [timestamp |-> a.price, market_name |-> a.market_name, price |-> a.price,
     size |-> a.size, is_bid |-> a.is_bid, event_type |-> a.event_type]

\* the event process_record_event builds from its inputs and the clock
new_event(now, a) ==
    [timestamp |-> ToLE(now, 8), market_name |-> a.market_name, price |-> a.price,
     size |-> a.size, is_bid |-> a.is_bid, event_type |-> a.event_type]

\* record, had it rebuilt the monitor without carrying the authority over
record_drops_authority(monitor, event) ==
    [monitor EXCEPT !.events = Append(@, event), !.event_count = IncLE(@),
                    !.authority = Fill(32, 0)]

\* monitor.events.push(event); monitor.event_count += 1
record(monitor, event) ==
    [monitor EXCEPT !.events = Append(@, event), !.event_count = IncLE(@)]

\* process_record_event from the load of the region on
load_and_record(loaded, buf, now, a) ==
    IF ~loaded.ok THEN refused(buf, BorshIoError(loaded.err))
    ELSE store(record(loaded.val, new_event(now, a)), buf)

\* process_record_event, had it left out the ownership check
process_record_event_unchecked(n_accounts, region_owner, buf, clock_ok, now, a) ==
    IF n_accounts < 2 THEN refused(buf, NotEnoughAccountKeys)
    ELSE IF ~clock_ok THEN refused(buf, UnsupportedSysvar)
    ELSE load_and_record(try_from_slice(buf), buf, now, a)

\* process_record_event on n_accounts accounts, the first being the region
process_record_event(n_accounts, region_owner, buf, clock_ok, now, a) ==
    IF n_accounts < 2 THEN refused(buf, NotEnoughAccountKeys)
    ELSE IF region_owner # ProgramId THEN refused(buf, InvalidOwner)
    ELSE IF ~clock_ok THEN refused(buf, UnsupportedSysvar)
    ELSE load_and_record(try_from_slice(buf), buf, now, a)

\* ------------------------------------------------------------ instructions
NoArgs == [market_name |-> <<>>, price |-> <<>>, size |-> <<>>, is_bid |-> FALSE,
           event_type |-> ""]

\* the fields of OrderbookInstruction::RecordEvent, in declared order
de_record_event(buf, pos) ==
    rd_event_type(buf,
      rd_bool(buf,
        rd_fixed(buf,
          rd_fixed(buf,
            rd_string(buf, Ok(NoArgs, pos), "market_name"),
            "price", 8),
          "size", 8),
        "is_bid"),
      "event_type")

\* the variant op with the fields decoded for it
variant(op, fields) ==
    IF ~fields.ok THEN fields ELSE Ok([op |-> op, args |-> fields.val], fields.pos)

\* enum OrderbookInstruction: the variant index, then the variant's fields
de_instruction(buf) ==
    IF Avail(buf, 1) < 1 THEN Err("Unexpected length of input")
    ELSE IF buf[1] = 0 THEN variant("Initialize", Ok(NoArgs, 2))
    ELSE IF buf[1] = 1 THEN variant("RecordEvent", de_record_event(buf, 2))
    ELSE Err("Unexpected variant index")

\* OrderbookInstruction::try_from_slice(instruction_data)
instruction_try_from_slice(buf) == all_bytes_read(buf, de_instruction(buf))

\* instruction.try_to_vec() of the client module: the instruction data of an
\* Initialize, and of a RecordEvent with the inputs a
InitializeData == <<0>>
RecordEventData(a) ==
    <<1>> \o ToLE(Len(a.market_name), 4) \o a.market_name \o a.price \o a.size
          \o <<IF a.is_bid THEN 1 ELSE 0>>
          \o <<(CHOOSE i \in 1..3 : EventTypes[i] = a.event_type) - 1>>

\* the match of process_instruction on the decoded instruction
dispatch(ins, n_accounts, region_owner, key, buf, clock_ok, now) ==
    IF ~ins.ok THEN refused(buf, InvalidInstructionData)
    ELSE IF ins.val.op = "Initialize"
         THEN process_initialize(n_accounts, region_owner, key, buf)
    ELSE process_record_event(n_accounts, region_owner, buf, clock_ok, now, ins.val.args)

\* process_instruction, had it decoded with a decoder that ignores what
\* follows the instruction
process_instruction_lenient(instruction_data, n_accounts, region_owner, key, buf, clock_ok, now) ==
    dispatch(de_instruction(instruction_data),
             n_accounts, region_owner, key, buf, clock_ok, now)

\* process_instruction: the entrypoint of the program
process_instruction(instruction_data, n_accounts, region_owner, key, buf, clock_ok, now) ==
    dispatch(instruction_try_from_slice(instruction_data),
             n_accounts, region_owner, key, buf, clock_ok, now)

\* ------------------------------------------------------------------- state
VARIABLES
    data,             \* the region: the monitor account's bytes
    owner,            \* the region's declared owner
    clock,            \* the host's Clock.unix_timestamp
    sysvar_ok,        \* the host provides the Clock sysvar (a test harness does not)
    call,             \* the last invocation: instruction, inputs, region before,
                      \* result, and the monitor it handed to serialize
    init_ok,          \* process_initialize has succeeded on this region
    first_authority,  \* the authority the first successful initialize stored
    appends,          \* RecordEvent invocations with both accounts since the last
                      \* successful initialize
    ok_appends,       \* those of them that returned Ok(())
    race              \* two RecordEvent invocations whose load and store the
                      \* host lets interleave (SpecRace only)

vars == <<data, owner, clock, sysvar_ok, call, init_ok, first_authority, appends,
          ok_appends, race>>

Callers == {1, 2}
\* no invocation of the two has begun
NoRace ==
    [pc |-> [p \in Callers |-> "idle"], loaded |-> [p \in Callers |-> Err("")],
     now |-> [p \in Callers |-> 0], args |-> [p \in Callers |-> NoArgs],
     result |-> [p \in Callers |-> Success], pre |-> <<>>, stores |-> <<>>,
     overlapped |-> FALSE]

\* the RecordEvent inputs the model draws from: every field takes two values
\* or more (prices and sizes are u64 little-endian)
EventArgs ==
    { [market_name |-> SolUsdc, price |-> ToLE(2500, 8), size |-> ToLE(70000, 8),
       is_bid |-> TRUE, event_type |-> "OrderPlaced"],
      [market_name |-> BtcUsdc, price |-> ToLE(1, 8), size |-> ToLE(70000, 8),
       is_bid |-> FALSE, event_type |-> "OrderFilled"],
      [market_name |-> SolUsdc, price |-> ToLE(1, 8), size |-> ToLE(300, 8),
       is_bid |-> FALSE, event_type |-> "OrderCancelled"] }

\* instruction data no client function builds: an unknown variant index, an
\* Initialize followed by one more byte, a RecordEvent without its last field
RawRequests ==
    LET d == RecordEventData(CHOOSE a \in EventArgs : a.event_type = "OrderPlaced")
    IN  { <<2>>, InitializeData \o <<0>>, SubSeq(d, 1, Len(d) - 1) }

Init ==
    /\ \E s \in RegionSizes : data \in InitialImages(s)
    /\ owner \in {ProgramId, OtherProgram}
    /\ clock = 0
    /\ sysvar_ok \in BOOLEAN
    /\ call = [op |-> "none", raw |-> <<>>, n_accounts |-> 0, is_signer |-> FALSE,
               now |-> 0, args |-> NoArgs, pre |-> data, result |-> Success,
               monitor |-> BlankMonitor]
    /\ init_ok = FALSE
    /\ first_authority = <<>>
    /\ appends = 0
    /\ ok_appends = 0
    /\ race = NoRace

\* the bytes of the authority field of a region
AuthorityBytes(buf) == SubSeq(buf, 2, 33)

\* the variant an instruction decodes to, and its inputs
OpOf(ins) == IF ins.ok THEN ins.val.op ELSE "Undecoded"
ArgsOf(ins) == IF ins.ok THEN ins.val.args ELSE NoArgs

\* what an invocation leaves behind: r is what process_instruction returned,
\* op the variant the instruction data raw decoded to, a its inputs
Returned(r, raw, op, a, n_accounts, is_signer) ==
    /\ data' = r.data
    /\ call' = [op |-> op, raw |-> raw, n_accounts |-> n_accounts,
                is_signer |-> is_signer, now |-> clock, args |-> a,
                pre |-> data, result |-> r.result, monitor |-> r.monitor]
    /\ init_ok' = (init_ok \/ (op = "Initialize" /\ r.result = Success))
    /\ first_authority' = IF ~init_ok /\ op = "Initialize" /\ r.result = Success
                          THEN AuthorityBytes(r.data) ELSE first_authority
    /\ appends' = IF op = "Initialize" /\ r.result = Success THEN 0
                  ELSE IF op = "RecordEvent" /\ n_accounts = 2
                       THEN appends + 1 ELSE appends
    /\ ok_appends' = IF op = "Initialize" /\ r.result = Success THEN 0
                     ELSE IF op = "RecordEvent" /\ r.result = Success
                          THEN ok_appends + 1 ELSE ok_appends
    /\ UNCHANGED <<owner, clock, sysvar_ok, race>>

\* one invocation of the entrypoint with the instruction data raw and the
\* first n_accounts of [monitor account, market account]
Invoke(raw, n_accounts, is_signer) ==
    \E r \in {process_instruction(raw, n_accounts, owner, MonitorKey, data,
                                  sysvar_ok, clock)},
       ins \in {instruction_try_from_slice(raw)} :
        Returned(r, raw, OpOf(ins), ArgsOf(ins), n_accounts, is_signer)

\* client::initialize: an Initialize instruction
Initialize ==
    \E n_accounts \in 0..1, is_signer \in BOOLEAN :
        Invoke(InitializeData, n_accounts, is_signer)

\* client::record_event: a RecordEvent instruction
RecordEvent ==
    /\ appends < MaxCalls
    /\ \E n_accounts \in 1..2, is_signer \in BOOLEAN, a \in EventArgs :
        Invoke(RecordEventData(a), n_accounts, is_signer)

\* any other instruction data, with no account (and so no signer) or with
\* both accounts, signed by the monitor account's key
Request ==
    \E raw \in RawRequests, n_accounts \in {0, 2} :
        Invoke(raw, n_accounts, n_accounts > 0)

\* the host's clock advances
Tick ==
    /\ clock < MaxClock
    /\ clock' = clock + 1
    /\ UNCHANGED <<data, owner, sysvar_ok, call, init_ok, first_authority, appends,
                   ok_appends, race>>

Next == Initialize \/ RecordEvent \/ Request \/ Tick

Spec == Init /\ [][Next]_vars

\* ------------------------------------------- two appends, not serialized
\* process_record_event is a load of the region (lib.rs:153), a change of the
\* loaded copy, and a store (lib.rs:170).  Here two invocations with both
\* accounts run on the same region and the host may run the load of one
\* between the load and the store of the other.

\* process_record_event from the point where the region has been loaded
resume_record_event(loaded, region_owner, buf, clock_ok, now, a) ==
    IF region_owner # ProgramId THEN refused(buf, InvalidOwner)
    ELSE IF ~clock_ok THEN refused(buf, UnsupportedSysvar)
    ELSE load_and_record(loaded, buf, now, a)

\* caller p gets as far as OrderbookMonitor::try_from_slice(&data.borrow())
Load(p) ==
    /\ race.pc[p] = "idle"
    /\ \E a \in EventArgs, l \in {try_from_slice(data)} :
        race' = [race EXCEPT !.pc[p] = "loaded", !.loaded[p] = l,
                             !.now[p] = clock, !.args[p] = a,
                             !.pre = IF \A q \in Callers : race.pc[q] = "idle"
                                     THEN data ELSE @]
    /\ UNCHANGED <<data, owner, clock, sysvar_ok, call, init_ok, first_authority,
                   appends, ok_appends>>

\* caller p runs the rest of the handler on what it loaded
Store(p) ==
    /\ race.pc[p] = "loaded"
    /\ \E r \in {resume_record_event(race.loaded[p], owner, data, sysvar_ok,
                                     race.now[p], race.args[p])} :
        /\ data' = r.data
        /\ race' = [race EXCEPT !.pc[p] = "done", !.result[p] = r.result,
                                !.stores = Append(@, p),
                                !.overlapped =
                                    (@ \/ \E q \in Callers : q # p /\ race.pc[q] = "loaded")]
    /\ UNCHANGED <<owner, clock, sysvar_ok, call, init_ok, first_authority,
                   appends, ok_appends>>

\* the region is set up before the two invocations begin
Setup == (\A p \in Callers : race.pc[p] = "idle") /\ Initialize

NextRace == Setup \/ (\E p \in Callers : Load(p)) \/ (\E p \in Callers : Store(p)) \/ Tick

SpecRace == Init /\ [][NextRace]_vars

\* ------------------------------------------------- reading a region's ledger
\* what a reader finds in a region: the ledger encoded at its start
Decoded(buf) == try_from_slice_unchecked(buf)
\* the bytes of the event_count field of a region
CountBytes(buf) == SubSeq(buf, 34, 41)
\* a <= b for little-endian unsigned integers of the same width
LeU64(a, b) ==
    \/ a = b
    \/ \E i \in 1..Len(a) : a[i] < b[i] /\ \A j \in (i + 1)..Len(a) : a[j] = b[j]
IsPrefix(s, t) == Len(s) <= Len(t) /\ SubSeq(t, 1, Len(s)) = s
\* the region holds an initialized ledger and has room for one more event
\* with the name of the inputs a
HoldsInitialized(buf) == Decoded(buf).ok /\ Decoded(buf).val.initialized
HasRoomFor(buf, a) ==
    (Decoded(buf).pos - 1) + EventFixedLen + Len(a.market_name) <= Len(buf)
\* the last call was an append that got as far as the region: both accounts
\* supplied, region owned by the program, clock available
WellFormedAppend ==
    /\ call.op = "RecordEvent" /\ call.n_accounts = 2
    /\ owner = ProgramId /\ sysvar_ok
WriteFailed == BorshIoError("failed to write whole buffer")

\* ------------------------------------------------------------------ claims

\* C1: an append on a program-owned region that holds an initialized ledger
\* and has room for one more event succeeds, adds 1 to event_count and adds
\* one event, built from the inputs, at the end of events.
C1_AppendAddsEvent ==
    (WellFormedAppend /\ HoldsInitialized(call.pre) /\ HasRoomFor(call.pre, call.args))
        => /\ call.result = Success
           /\ Decoded(data).ok
           /\ Decoded(data).val.event_count = IncLE(Decoded(call.pre).val.event_count)
           /\ Decoded(data).val.events =
                 Append(Decoded(call.pre).val.events, new_event(call.now, call.args))

\* C2: after a successful initialize, try_from_slice of the whole region
\* succeeds and gives initialized = true, authority = the region's key,
\* event_count = 0 and no events.
C2_InitializeDecodes ==
    (call.op = "Initialize" /\ call.result = Success)
        => /\ try_from_slice(data).ok
           /\ try_from_slice(data).val =
                 [initialized |-> TRUE, authority |-> MonitorKey,
                  event_count |-> ToLE(0, 8), events |-> <<>>]

\* C3: an append whose re-serialized ledger does not fit in the region fails
\* and leaves every byte of the region as it was.
C3_CapacityFailureAtomic ==
    (call.op = "RecordEvent" /\ call.result = WriteFailed) => data = call.pre

\* C4: once initialize has succeeded, the region holds a ledger whose
\* event_count equals the number of its events.
C4_CountMatchesEvents ==
    init_ok => /\ Decoded(data).ok
               /\ Decoded(data).val.event_count = ToLE(Len(Decoded(data).val.events), 8)

\* C5: on a region sized for exactly n events, the first n appends after
\* initialize succeed and the next one fails with the write (capacity) error
\* while event_count stays n.
C5_ExactCapacity ==
    \A n \in 0..MaxEvents :
        (init_ok /\ WellFormedAppend /\ Len(data) = SizeFor(n))
            => IF appends <= n THEN call.result = Success
               ELSE call.result = WriteFailed /\ CountBytes(data) = ToLE(n, 8)

\* C6: an append on a region on which initialize has not succeeded fails and
\* writes nothing.
C6_NoAppendBeforeInitialize ==
    (call.op = "RecordEvent" /\ ~init_ok)
        => call.result # Success /\ data = call.pre

\* C7 (as claimed): every initialize and append against a region the program
\* does not own fails with InvalidOwner and leaves the region unchanged,
\* whatever other accounts are supplied.
C7_AlwaysInvalidOwner ==
    (call.op \in {"Initialize", "RecordEvent"} /\ call.n_accounts >= 1 /\ owner # ProgramId)
        => call.result = InvalidOwner /\ data = call.pre

\* C7 (amended): every initialize and append against a region the program
\* does not own fails and leaves the region unchanged; the error is
\* InvalidOwner when the accounts the command needs are supplied, and
\* NotEnoughAccountKeys for an append without a market account.
C7_OwnerGate ==
    (call.op \in {"Initialize", "RecordEvent"} /\ call.n_accounts >= 1 /\ owner # ProgramId)
        => /\ data = call.pre
           /\ call.result =
                 IF call.op = "RecordEvent" /\ call.n_accounts < 2
                 THEN NotEnoughAccountKeys ELSE InvalidOwner

\* an append with both accounts on a region of another program, whose bytes
\* would otherwise have been written, was refused
C7_Witness ==
    /\ owner # ProgramId
    /\ call.op = "RecordEvent" /\ call.n_accounts = 2
    /\ try_from_slice(call.pre).ok
    /\ call.result = InvalidOwner

\* C8: a call the region's key has not signed does not change the region.
C8_WriteNeedsSigner ==
    (call.op # "none" /\ ~call.is_signer) => data = call.pre

\* C9: the authority stored by the first successful initialize stays in the
\* region through every later call.
C9_AuthorityImmutable ==
    init_ok => AuthorityBytes(data) = first_authority

\* an append on an initialized region has rewritten the region
C9_Witness ==
    /\ init_ok
    /\ call.op = "RecordEvent" /\ data # call.pre
    /\ AuthorityBytes(data) = MonitorKey

\* C10: on an initialized region no step removes or changes an event or
\* lowers event_count.
C10_LedgerOnlyGrows ==
    [][init_ok =>
          /\ LeU64(CountBytes(data), CountBytes(data'))
          /\ (Decoded(data).ok /\ Decoded(data').ok)
                => IsPrefix(Decoded(data).val.events, Decoded(data').val.events)]_vars

\* the last call got as far as serialize, with the ledger state Serialized
GotToSerialize == call.monitor # BlankMonitor
Serialized == call.monitor

\* C11: round trip.  Every ledger state a handler hands to serialize decodes
\* from its encoding to itself, field for field; and when the handler
\* returned Ok(()), so that the state is stored, the bytes it wrote at the
\* start of the region decode to that state.
C11_RoundTrip ==
    GotToSerialize
        => /\ try_from_slice(Encode(Serialized)) =
                 Ok(Serialized, Len(Encode(Serialized)) + 1)
           /\ call.result = Success
                 => try_from_slice(SubSeq(data, 1, Len(Encode(Serialized)))) =
                       Ok(Serialized, Len(Encode(Serialized)) + 1)

\* a ledger was stored over other contents, in a region longer than the ledger
C11_Witness ==
    /\ call.op = "Initialize" /\ call.result = Success
    /\ Len(data) > Len(Encode(Serialized))
    /\ data # call.pre
    /\ Decoded(data).val.authority = MonitorKey

\* C12: a request whose instruction data does not decode fails with
\* InvalidInstructionData, and one with fewer accounts than its handler takes
\* fails with NotEnoughAccountKeys; either way the region is unchanged.
C12_MalformedRequestRejected ==
    /\ (call.op # "none" /\ ~instruction_try_from_slice(call.raw).ok)
           => call.result = InvalidInstructionData /\ data = call.pre
    /\ (\/ call.op = "Initialize" /\ call.n_accounts < 1
        \/ call.op = "RecordEvent" /\ call.n_accounts < 2)
           => call.result = NotEnoughAccountKeys /\ data = call.pre

\* an Initialize followed by one more byte was refused on a region of the
\* program that an Initialize would have written
C12_Witness ==
    /\ call.raw = InitializeData \o <<0>>
    /\ call.n_accounts >= 1 /\ owner = ProgramId
    /\ process_initialize(call.n_accounts, owner, MonitorKey, call.pre).data # call.pre
    /\ call.result = InvalidInstructionData

\* C13: no call fails with AlreadyInitialized, and an initialize on a region
\* of the program that has room for the empty ledger succeeds whatever the
\* region holds (an initialized ledger, a ledger with events, a ledger left
\* half-written by an append, garbage); the region then holds the empty
\* ledger: initialized = true, event_count = 0, no events.
C13_InitializeOverwrites ==
    /\ call.result # AlreadyInitialized
    /\ (/\ call.op = "Initialize" /\ call.n_accounts >= 1 /\ owner = ProgramId
        /\ Len(call.pre) >= HeaderLen)
           => /\ call.result = Success
              /\ Decoded(data) = Ok(new_monitor(MonitorKey), HeaderLen + 1)

\* initialize has reset a region that was initialized and whose event_count
\* an append had raised to 1
C13_Witness ==
    /\ call.op = "Initialize" /\ call.result = Success
    /\ call.pre[1] = 1 /\ AuthorityBytes(call.pre) = MonitorKey
    /\ CountBytes(call.pre) = ToLE(1, 8)
    /\ CountBytes(data) = ToLE(0, 8)

\* C14 (as claimed): after a successful initialize every byte of the region
\* is determined by the new empty ledger: the region is the encoded ledger
\* followed by zeroes, as in a fresh region, and no byte it held before is left.
C14_ReplacesInFull ==
    (call.op = "Initialize" /\ call.result = Success)
        => data = Encode(new_monitor(MonitorKey)) \o Fill(Len(data) - HeaderLen, 0)

\* C14 (amended): a successful initialize overwrites the first 45 bytes of
\* the region with the encoded empty ledger and leaves every byte after them
\* as it was.
C14_PrefixOnly ==
    (call.op = "Initialize" /\ call.result = Success)
        => /\ Len(data) = Len(call.pre)
           /\ SubSeq(data, 1, HeaderLen) = Encode(new_monitor(MonitorKey))
           /\ SubSeq(data, HeaderLen + 1, Len(data)) =
                 SubSeq(call.pre, HeaderLen + 1, Len(call.pre))

\* a garbage-filled region was initialized and its last byte is still garbage
C14_Witness ==
    /\ call.op = "Initialize" /\ call.result = Success
    /\ Len(data) > HeaderLen
    /\ call.pre[1] = 255 /\ data[1] = 1
    /\ data[Len(data)] = 255

\* C15: whatever bytes a region holds, the explorer's decode
\* (try_from_slice_unchecked) and the decode of process_record_event
\* (try_from_slice) both fail or both succeed with the same ledger; stated
\* here for the regions the program has initialized.
C15_SameDecodeContract ==
    init_ok
        => /\ try_from_slice_unchecked(data).ok = try_from_slice(data).ok
           /\ try_from_slice(data).ok
                 => try_from_slice_unchecked(data).val = try_from_slice(data).val

\* C16: of two appends on an initialized region, both of which loaded
\* it before either stored, the later store decides the region: the ledger
\* then has the later storer's event after the events it had, and
\* event_count is one more than it was.  When instead the second loaded after
\* the first had stored, and both returned Ok(()), the ledger has both events
\* in call order and event_count is two more than it was.
C16_LostUpdate ==
    ((\A p \in Callers : race.pc[p] = "done") /\ owner = ProgramId /\ sysvar_ok
       /\ init_ok /\ try_from_slice(race.pre).ok)
        => LET before == try_from_slice(race.pre).val
               ev(p) == new_event(race.now[p], race.args[p])
           IN  IF race.overlapped
               THEN /\ Decoded(data).ok
                    /\ Decoded(data).val.events =
                          Append(before.events, ev(race.stores[2]))
                    /\ Decoded(data).val.event_count = IncLE(before.event_count)
               ELSE (\A p \in Callers : race.result[p] = Success)
                      => /\ Decoded(data).ok
                         /\ Decoded(data).val.events =
                               before.events \o <<ev(race.stores[1]), ev(race.stores[2])>>
                         /\ Decoded(data).val.event_count =
                               IncLE(IncLE(before.event_count))

KindOf(e) == <<e.kind, e.code>>

\* C18: an append on a region of the program whose bytes do not decode fails
\* with an error whose kind is not that of InvalidOwner, of the
\* malformed-request errors, or of the capacity error of a write that does
\* not fit.
C18_DeserializationErrorDistinct ==
    (WellFormedAppend /\ ~try_from_slice(call.pre).ok)
        => /\ call.result # Success
           /\ KindOf(call.result) \notin
                 {KindOf(InvalidOwner), KindOf(InvalidInstruction),
                  KindOf(InvalidInstructionData), KindOf(NotEnoughAccountKeys),
                  KindOf(WriteFailed)}

\* the last call was the first append with both accounts after a successful
\* initialize, on a region of the program without room for its event
FirstAppendWithoutRoom ==
    /\ WellFormedAppend /\ init_ok /\ appends = 1
    /\ ~HasRoomFor(call.pre, call.args)

C20_CountIsSuccessfulAppends ==
    init_ok
        => /\ CountBytes(data) = ToLE(ok_appends, 8)
           /\ call.result # Success
                 => SubSeq(data, 34, Len(data)) = SubSeq(call.pre, 34, Len(call.pre))

====
